---- MODULE Spec2Model ----
(***************************************************************************)
(* Model of taskolib's Step execution engine (src/src/Step.cc): one call   *)
(* of Step::execute on a Context and a CommChannel, the Lua hooks that     *)
(* enforce timeout and termination requests, and the variable bridge       *)
(* between the Context and the Lua globals.                                *)
(*                                                                         *)
(* The script is an input.  It is described by its shape (does its work    *)
(* end by itself, is the work wrapped in pcall, what follows the work and  *)
(* on which source line) and by the globals it assigns.  The Lua VM and    *)
(* sol2 are the environment of Step.cc; they are modelled by what the      *)
(* calls in Step.cc ask of them (lua_sethook masks, luaL_error, pcall,     *)
(* safe_script with script_default_on_error, is<long long>()).             *)
(***************************************************************************)
EXTENDS Integers, Sequences, FiniteSets, TLC

(* ------------------------------ bounds --------------------------------- *)

\* the clock is counted in ticks; TicksPerMs ticks make one millisecond
TicksPerMs == 2
\* largest clock reading (ticks) the model lets the clock reach
MaxClock == 4
\* largest clock reading (ticks) at which execute() is called
MaxStart == 2
\* std::numeric_limits<long long>::max(), scaled down to the model's width
LLongMax == 6
\* largest step index passed to execute()
MaxIndex == 1

(* ------------------------- program constants --------------------------- *)

SOL_SAFE_NUMERICS == 1
\* SOL_DEFAULT_PASS_ON_ERROR is not defined by config.hpp
SOL_DEFAULT_PASS_ON_ERROR == FALSE

step_timeout_ms_since_epoch_key == "TASKOMAT_STEP_TIMEOUT_MS_SINCE_EPOCH"
comm_channel_key == "TASKOMAT_COMM_CHANNEL"
abort_marker == "[ABORT] "

(* ------------------------------ values --------------------------------- *)

Names == {"a", "b"}

\* VariableValue = std::variant<long long, double, std::string>; a floating
\* payload is stored as twice its value, so that 1.5 is num = 3
IntV(i) == [variant |-> "integer", num |-> i, str |-> ""]
FloatV(h) == [variant |-> "floating", num |-> h, str |-> ""]
TextV(s) == [variant |-> "text", num |-> 0, str |-> s]
\* no entry under this name in Context::variables
Absent == [variant |-> "absent", num |-> 0, str |-> ""]

\* Lua values: the type, and for numbers the subtype (Lua 5.3+ integers and
\* floats); a float is stored as twice its value
LuaInt(i) == [t |-> "number", sub |-> "integer", num |-> i, str |-> ""]
LuaFloat(h) == [t |-> "number", sub |-> "float", num |-> h, str |-> ""]
LuaStr(s) == [t |-> "string", sub |-> "", num |-> 0, str |-> s]
LuaOther(ty) == [t |-> ty, sub |-> "", num |-> 0, str |-> ""]
LuaNil == LuaOther("nil")
\* a global the script does not assign (or assigns to itself, n = n)
Keep == LuaOther("keep")

OtherLuaTypes == {"nil", "boolean", "table", "function", "userdata"}

(* --------------------------- pure functions ---------------------------- *)

\* std::chrono::round<milliseconds>: nearest millisecond, ties to even
RoundMs(t) ==
    LET q == t \div TicksPerMs
        r == t % TicksPerMs
    IN  IF 2 * r < TicksPerMs THEN q
        ELSE IF 2 * r > TicksPerMs THEN q + 1
        ELSE IF q % 2 = 0 THEN q ELSE q + 1

\* long long arithmetic: a result outside -(LLongMax + 1)..LLongMax wraps
WrapLL(x) == ((x + LLongMax + 1) % (2 * (LLongMax + 1))) - (LLongMax + 1)

\* get_ms_since_epoch adding the timeout without the guard
get_ms_since_epoch_Unguarded(t0, dt_ms) == WrapLL(RoundMs(t0) + dt_ms)

get_ms_since_epoch(t0, dt_ms) ==
    LET t0_ms == RoundMs(t0)
        max_dt == WrapLL(LLongMax - t0_ms)
    IN  IF dt_ms < max_dt THEN WrapLL(t0_ms + dt_ms) ELSE LLongMax

\* std::chrono::duration<double>(timeout).count(), as gul14::cat prints it
TimeoutSeconds(dt_ms) == ToString(dt_ms) \o "e-3"

(* --------------------------- variable bridge --------------------------- *)

\* lua[varname] = value for the three alternatives of the variant
ToLua(v) ==
    IF v.variant = "integer" THEN LuaInt(v.num)
    ELSE IF v.variant = "floating" THEN LuaFloat(v.num)
    ELSE LuaStr(v.str)

copy_used_variables_from_context_to_lua(ctx, used, lua) ==
    [n \in Names |->
        IF n \in used /\ ctx[n] # Absent THEN ToLua(ctx[n]) ELSE lua[n]]

\* is<long long>() as it is without SOL_SAFE_NUMERICS: every number passes
is_long_long_Unsafe(v) == TRUE

\* var.is<long long>() on a value of Lua type number: with SOL_SAFE_NUMERICS
\* the check is lua_isinteger (the subtype); without it every number passes
is_long_long(v) ==
    IF SOL_SAFE_NUMERICS = 1 THEN v.sub = "integer" ELSE TRUE

\* var.as<long long>(): the integer itself, a float converted to an integer
as_long_long(v) ==
    IF v.sub = "integer" THEN v.num ELSE v.num \div 2

\* var.as<double>(): twice the value
as_double(v) ==
    IF v.sub = "integer" THEN 2 * v.num ELSE v.num

\* the export of one variable that tells integers by their value
ExportValue_ByValue(var, old) ==
    IF var.t = "number"
    THEN IF var.sub = "integer" THEN IntV(var.num)
         ELSE IF var.num % 2 = 0 THEN IntV(var.num \div 2) ELSE FloatV(var.num)
    ELSE IF var.t = "string" THEN TextV(var.str)
    ELSE old

\* the body of the export loop for one variable name
ExportValue(var, old) ==
    IF var.t = "number"
    THEN IF is_long_long(var) THEN IntV(as_long_long(var))
         ELSE FloatV(as_double(var))
    ELSE IF var.t = "string" THEN TextV(var.str)
    ELSE old

\* the export loop run over every global instead of the whitelist
copy_used_variables_from_lua_to_context_AllNames(lua, used, ctx) ==
    [n \in Names |-> ExportValue(lua[n], ctx[n])]

copy_used_variables_from_lua_to_context(lua, used, ctx) ==
    [n \in Names |-> IF n \in used THEN ExportValue(lua[n], ctx[n]) ELSE ctx[n]]

(* ------------------------------- hooks --------------------------------- *)

\* the value of the registry before install_timeout_and_termination_request_hook
EmptyRegistry ==
    [timeout_ms |-> -1, timeout_s |-> "", comm_channel |-> "unset",
     abort_error_message |-> << >>]

\* no error raised
NoMsg == << >>

\* check_immediate_termination_request taking a null CommChannel* for a
\* missing registry entry
check_immediate_termination_request_NullIsMissing(registry, flag) ==
    IF registry.comm_channel \in {"unset", "nil"}
    THEN <<comm_channel_key, " not found in LUA registry">>
    ELSE IF registry.comm_channel = "chan" /\ flag
         THEN <<"Step aborted on user request">>
         ELSE NoMsg

\* the message check_immediate_termination_request aborts with, or NoMsg.
\* A null CommChannel* is stored as nil and read back as a null pointer.
check_immediate_termination_request(registry, flag) ==
    IF registry.comm_channel = "unset"
    THEN <<comm_channel_key, " not found in LUA registry">>
    ELSE IF registry.comm_channel = "chan" /\ flag
         THEN <<"Step aborted on user request">>
         ELSE NoMsg

\* check_script_timeout aborting as soon as the deadline is reached
check_script_timeout_AtDeadline(registry, now) ==
    IF registry.timeout_ms = -1
    THEN <<"Timeout time point not found in LUA registry (",
           step_timeout_ms_since_epoch_key, ")">>
    ELSE IF RoundMs(now) >= registry.timeout_ms
         THEN <<"Timeout: Script took more than ", registry.timeout_s,
                " s to run">>
         ELSE NoMsg

\* the message check_script_timeout aborts with, or NoMsg
check_script_timeout(registry, now) ==
    IF registry.timeout_ms = -1
    THEN <<"Timeout time point not found in LUA registry (",
           step_timeout_ms_since_epoch_key, ")">>
    ELSE IF RoundMs(now) > registry.timeout_ms
         THEN <<"Timeout: Script took more than ", registry.timeout_s,
                " s to run">>
         ELSE NoMsg

\* the termination request is checked first; its error skips the timeout check
hook_check_timeout_and_termination_request(registry, flag, now) ==
    LET m == check_immediate_termination_request(registry, flag)
    IN  IF m # NoMsg THEN m ELSE check_script_timeout(registry, now)

\* the abort message stored without the marker
abort_script_with_error_NoMarker(registry, msg) ==
    [registry EXCEPT !.abort_error_message = msg]

\* registry[abort_error_message_key] = "[ABORT] " + msg
abort_script_with_error(registry, msg) ==
    [registry EXCEPT !.abort_error_message = <<abort_marker>> \o msg]

install_timeout_and_termination_request_hook(now, timeout, comm_channel) ==
    [timeout_ms |-> get_ms_since_epoch(now, timeout),
     timeout_s |-> TimeoutSeconds(timeout),
     comm_channel |-> IF comm_channel = "null" THEN "nil" ELSE "chan",
     abort_error_message |-> << >>]

(* ------------------------------ messages ------------------------------- *)

\* send_message(comm, type, text, timestamp, index): nothing without a channel
send_message(queue, comm_channel, type, text, timestamp, idx) ==
    IF comm_channel = "null" THEN queue
    ELSE Append(queue, [type |-> type, text |-> text,
                        timestamp |-> timestamp, index |-> idx])

\* luaL_error prepends the position of the running chunk when there is one
LuaWhere == {"", "[string]:1: "}

\* what() of the sol::error that script_throw_on_error throws
SolWhat(where, lua_msg) == <<"sol: runtime error: ", where>> \o lua_msg

\* the message with the index as it was passed, counted from 0
ErrorMessage_ZeroBased(idx, what) ==
    <<"Error while executing script of step ", ToString(idx), ": ">> \o what

\* cat("Error while executing script of step ", index + 1, ": ", e.what())
ErrorMessage(idx, what) ==
    <<"Error while executing script of step ", ToString(idx + 1), ": ">> \o what

\* cat("Step ", index + 1, " finished (logical result: ", result, ')')
StoppedMessage(idx, res) ==
    <<"Step ", ToString(idx + 1), " finished (logical result: ",
      IF res THEN "true" ELSE "false", ")">>

\* sol::optional<bool> result = protected_result: a value only for a boolean
OptionalBool(rv) == IF rv \in {"true", "false"} THEN rv ELSE "nullopt"

(* ------------------------------- inputs -------------------------------- *)

\* what the script does when its work is over: return a boolean, return a
\* non-boolean, return nothing, or raise an error of its own
Outcomes == {"true", "false", "number", "none", "error"}

ScriptErrorText == <<"script error">>

AllKeep == [n \in Names |-> Keep]

\* scripts that run to their end in fewer instructions than the count hook
\* needs (unless the hook fires first), assigning globals of every Lua type
DataScripts ==
    [work : {"finite"}, protected : {FALSE}, tailNewLine : {FALSE},
     outcome : {"true", "none"},
     writes : {w \in [Names -> {Keep, LuaInt(1), LuaFloat(1), LuaFloat(6), LuaStr("t")}
                                \cup {LuaOther(ty) : ty \in OtherLuaTypes}] :
                  w["b"] \in {Keep, LuaInt(1)}}]

\* scripts of every control shape: work that ends or not ("while true do
\* end"), run directly or inside pcall, followed on the same source line or
\* on a new line by the outcome
ControlScripts ==
    {sc \in [work : {"finite", "endless"}, protected : BOOLEAN,
             tailNewLine : BOOLEAN, outcome : Outcomes,
             writes : {AllKeep, [a |-> LuaInt(1), b |-> LuaStr("t")]}] :
        /\ (~sc.protected => ~sc.tailNewLine)
        /\ (~sc.protected /\ sc.work = "endless" => sc.outcome = "none")}

DataContexts ==
    [variables : {v \in [Names -> {Absent, IntV(3), FloatV(6), FloatV(3), TextV("s")}] :
                     v["b"] \in {Absent, IntV(3)}},
     lua_init_function : {"none", "set_a"}]

ControlContexts ==
    [variables : {[a |-> IntV(3), b |-> Absent]}, lua_init_function : {"none"}]

\* a timeout is never negative (Step::set_timeout)
Timeouts == {0, 1, LLongMax}

(* ------------------------------- state --------------------------------- *)

VARIABLES
    clock,                              \* Clock::now(), in ticks
    immediate_termination_requested_,   \* the flag of the CommChannel
    queue,                              \* the messages sent to the CommChannel
    script_,                            \* Step: the script
    used_context_variable_names_,       \* Step: the import/export whitelist
    timeout_,                           \* Step: the timeout in milliseconds
    time_of_last_execution_,            \* Step
    context,                            \* the caller's Context
    comm,                               \* argument of execute: "null" or "chan"
    index,                              \* argument of execute
    lua,                                \* the globals of the sol::state
    registry,                           \* the Lua registry
    hook,                               \* the installed hook: none, check, abort
    vmpc,                               \* where the script is
    pc,                                 \* where execute() is
    result,                             \* the value execute() returned
    error,                              \* the message of the Error it threw
    raised_by,                          \* what raised the error that ended it
    context0,                           \* the Context when execute() was called
    indentation_level_,                 \* Step: the indentation level
    steps_,                             \* Sequence: the steps
    indentation_error_,                 \* Sequence: the indentation error
    triggers,                           \* the TimeoutTrigger objects
    last_call                           \* the last call made on a Step or a
                                        \* TimeoutTrigger, and how it ended

vars == <<clock, immediate_termination_requested_, queue, script_,
          used_context_variable_names_, timeout_, time_of_last_execution_,
          context, comm, index, lua, registry, hook, vmpc, pc, result, error,
          raised_by, context0, indentation_level_, steps_, indentation_error_,
          triggers, last_call>>

\* the state of the objects that take no part in Step::execute
restVars == <<indentation_level_, steps_, indentation_error_, triggers, last_call>>

stepVars == <<script_, used_context_variable_names_, timeout_>>
argVars == <<comm, index>>
outVars == <<context, queue, pc, result, error, raised_by>>

\* no call was made yet on a Step or on a TimeoutTrigger
NoCall == [op |-> "none", obj |-> 0, arg |-> 0, threw |-> FALSE]

\* a Sequence without steps, a Step at indentation level 0, no TimeoutTrigger
RestIdle ==
    /\ indentation_level_ = 0
    /\ steps_ = << >>
    /\ indentation_error_ = NoMsg
    /\ triggers = << >>
    /\ last_call = NoCall

Init ==
    /\ RestIdle
    /\ \/ /\ script_ \in DataScripts
          /\ context \in DataContexts
          /\ used_context_variable_names_ \in SUBSET Names
          /\ timeout_ = LLongMax
          /\ clock = 0
          /\ comm = "chan"
          /\ index = 0
       \/ /\ script_ \in ControlScripts
          /\ context \in ControlContexts
          /\ used_context_variable_names_ = {"a"}
          /\ timeout_ \in Timeouts
          /\ clock \in 0..MaxStart
          /\ comm \in {"null", "chan"}
          /\ index \in 0..MaxIndex
    /\ immediate_termination_requested_ = FALSE
    /\ queue = << >>
    /\ time_of_last_execution_ = 0
    /\ lua = [n \in Names |-> LuaNil]
    /\ registry = EmptyRegistry
    /\ hook = "none"
    /\ vmpc = "off"
    /\ pc = "idle"
    /\ result = "none"
    /\ error = NoMsg
    /\ raised_by = "none"
    /\ context0 = context

(* ------------------------------ actions -------------------------------- *)

\* the clock advances while the script does its work (the other steps of
\* the script take no time)
Tick ==
    /\ pc = "running"
    /\ vmpc = "work"
    /\ clock < MaxClock
    /\ RoundMs(clock + 1) <= LLongMax
    /\ clock' = clock + 1
    /\ UNCHANGED <<restVars, immediate_termination_requested_, stepVars, argVars, outVars,
                   time_of_last_execution_, lua, registry, hook, vmpc, context0>>

\* an observer sets the termination flag of the channel
RequestTermination ==
    /\ pc \in {"idle", "running"}
    /\ comm = "chan"
    /\ ~immediate_termination_requested_
    /\ immediate_termination_requested_' = TRUE
    /\ UNCHANGED <<restVars, clock, stepVars, argVars, outVars, time_of_last_execution_,
                   lua, registry, hook, vmpc, context0>>

\* context.lua_init_function(lua)
RunLuaInitFunction(f, globals) ==
    IF f = "set_a" THEN [globals EXCEPT !["a"] = LuaStr("init")] ELSE globals

\* Step::execute up to the call of safe_script
ExecuteBegin ==
    /\ pc = "idle"
    /\ time_of_last_execution_' = clock
    /\ queue' = send_message(queue, comm, "step_started", <<"Step started">>,
                             clock, index)
    /\ registry' = install_timeout_and_termination_request_hook(clock, timeout_, comm)
    /\ hook' = "check"
    /\ lua' = copy_used_variables_from_context_to_lua(context.variables,
                  used_context_variable_names_,
                  RunLuaInitFunction(context.lua_init_function,
                                     [n \in Names |-> LuaNil]))
    /\ vmpc' = "start"
    /\ pc' = "running"
    /\ context0' = context
    /\ UNCHANGED <<restVars, clock, immediate_termination_requested_, stepVars, argVars,
                   context, result, error, raised_by>>

\* the script assigns its globals
ScriptAssign ==
    /\ pc = "running"
    /\ vmpc = "start"
    /\ lua' = [n \in Names |->
                  IF script_.writes[n] = Keep THEN lua[n] ELSE script_.writes[n]]
    /\ vmpc' = "work"
    /\ UNCHANGED <<restVars, clock, immediate_termination_requested_, stepVars, argVars,
                   outVars, time_of_last_execution_, registry, hook, context0>>

\* the outer "bool result", which the inner declaration shadows
ReturnValue_OuterResult(rv) == "false"

\* the value execute() returns for the value the script returned
ReturnValue(rv) ==
    IF OptionalBool(rv) # "nullopt" THEN OptionalBool(rv) ELSE "false"

\* the messages on the channel after the success path of execute()
SuccessMessages(q, rv) ==
    IF OptionalBool(rv) # "nullopt"
    THEN q
    ELSE send_message(q, comm, "step_stopped", StoppedMessage(index, FALSE),
                      clock, index)

\* Step::execute after safe_script returned a valid result
ExecuteSuccess(rv) ==
    /\ context' = [context EXCEPT !.variables =
                      copy_used_variables_from_lua_to_context(lua,
                          used_context_variable_names_, context.variables)]
    /\ queue' = SuccessMessages(queue, rv)
    /\ result' = ReturnValue(rv)
    /\ pc' = "done"
    /\ UNCHANGED <<error, raised_by>>

\* the Error of the "!protected_result.valid()" branch, which no handler of
\* execute() catches
ThrownError_Uncaught(where, lua_msg) ==
    [caught |-> FALSE,
     msg |-> <<"Error while executing script of step ", ToString(index),
               ": ", where>> \o lua_msg]

\* the Error thrown for the Lua error lua_msg, and whether the handler of
\* sol::error is the one that throws it (script_default_on_error throws a
\* sol::error unless SOL_DEFAULT_PASS_ON_ERROR makes it return the result)
ThrownError(where, lua_msg) ==
    IF SOL_DEFAULT_PASS_ON_ERROR
    THEN [caught |-> FALSE,
          msg |-> <<"Error while executing script of step ", ToString(index),
                    ": ", where>> \o lua_msg]
    ELSE [caught |-> TRUE,
          msg |-> ErrorMessage(index, SolWhat(where, lua_msg))]

\* Step::execute exporting the variables also when the script failed
ExecuteFailure_Exports(lua_msg, cause) ==
    \E where \in LuaWhere :
        LET thrown == ThrownError(where, lua_msg)
        IN  /\ queue' = IF thrown.caught
                        THEN send_message(queue, comm, "step_stopped_with_error",
                                          thrown.msg, clock, index)
                        ELSE queue
            /\ error' = thrown.msg
            /\ raised_by' = cause
            /\ pc' = "failed"
            /\ context' = [context EXCEPT !.variables =
                              copy_used_variables_from_lua_to_context(lua,
                                  used_context_variable_names_, context.variables)]
            /\ UNCHANGED result

\* Step::execute after the script ended with the Lua error lua_msg
ExecuteFailure(lua_msg, cause) ==
    \E where \in LuaWhere :
        LET thrown == ThrownError(where, lua_msg)
        IN  /\ queue' = IF thrown.caught
                        THEN send_message(queue, comm, "step_stopped_with_error",
                                          thrown.msg, clock, index)
                        ELSE queue
            /\ error' = thrown.msg
            /\ raised_by' = cause
            /\ pc' = "failed"
            /\ UNCHANGED <<context, result>>

\* check_..., abort_script_with_error and hook_abort_with_error: the abort
\* message is stored, the abort hook installed with the line mask and the
\* error raised; pcall catches it, otherwise it ends safe_script
CheckAndAbort ==
    LET msg == hook_check_timeout_and_termination_request(registry,
                   immediate_termination_requested_, clock)
    IN  /\ msg # NoMsg
        /\ registry' = abort_script_with_error(registry, msg)
        /\ hook' = "abort"
        /\ IF script_.protected
           THEN /\ vmpc' = "tail"
                /\ UNCHANGED outVars
           ELSE /\ vmpc' = "end"
                /\ ExecuteFailure(registry'.abort_error_message, "abort")
        /\ UNCHANGED <<restVars, clock, immediate_termination_requested_, stepVars,
                       argVars, time_of_last_execution_, lua, context0>>

\* the count hook fires after 100 instructions of the script's work
CountHook ==
    /\ pc = "running"
    /\ vmpc = "work"
    /\ hook = "check"
    /\ CheckAndAbort

\* the script's work calls sleep(): sleep_fct calls the check function itself
SleepSlice ==
    /\ pc = "running"
    /\ vmpc = "work"
    /\ CheckAndAbort

\* the script's work is over (and the pcall around it returns)
WorkDone ==
    /\ pc = "running"
    /\ vmpc = "work"
    /\ script_.work = "finite"
    /\ vmpc' = "tail"
    /\ UNCHANGED <<restVars, clock, immediate_termination_requested_, stepVars, argVars,
                   outVars, time_of_last_execution_, lua, registry, hook, context0>>

\* the line hook is called when the VM starts a new line: with the abort
\* hook installed, hook_abort_with_error raises the stored message again
LineHookFires == hook = "abort" /\ script_.tailNewLine

\* what follows the work: the abort hook if a new line starts, otherwise the
\* script's own error or its return
ScriptTail ==
    /\ pc = "running"
    /\ vmpc = "tail"
    /\ vmpc' = "end"
    /\ IF LineHookFires
       THEN ExecuteFailure(registry.abort_error_message, "abort")
       ELSE IF script_.outcome = "error"
            THEN ExecuteFailure(ScriptErrorText, "script")
            ELSE ExecuteSuccess(script_.outcome)
    /\ UNCHANGED <<restVars, clock, immediate_termination_requested_, stepVars, argVars,
                   time_of_last_execution_, lua, registry, hook, context0>>

Next ==
    \/ Tick
    \/ RequestTermination
    \/ ExecuteBegin
    \/ ScriptAssign
    \/ CountHook
    \/ SleepSlice
    \/ WorkDone
    \/ ScriptTail

Spec == Init /\ [][Next]_vars

(* ------------------------- helpers of the claims ----------------------- *)

\* the types of the messages on the channel, in the order they were sent
MessageTypes == [i \in 1..Len(queue) |-> queue[i].type]

\* the text contains the piece
Contains(text, piece) == \E i \in 1..Len(text) : text[i] = piece

\* the text contains the two pieces one right after the other
ContainsPair(text, p1, p2) ==
    \E i \in 1..(Len(text) - 1) : text[i] = p1 /\ text[i + 1] = p2

\* the text begins with the piece
BeginsWith(text, piece) == Len(text) > 0 /\ text[1] = piece

\* the text ends with the given text
EndsWith(text, suffix) ==
    /\ Len(text) >= Len(suffix)
    /\ SubSeq(text, Len(text) - Len(suffix) + 1, Len(text)) = suffix

UserRequestText == "Step aborted on user request"
TimeoutText == "Timeout: Script took more than "

Ended == pc \in {"done", "failed"}

(* ------------------------------- claims -------------------------------- *)

\* C1: every successful execute() with a CommChannel posts exactly one
\* step_started and then exactly one step_stopped, and nothing else.
\* (Violated: a script that returns a boolean leaves through
\* "return *result" before the step_stopped message is sent.)
C1_SuccessPostsStartedThenStopped ==
    (pc = "done" /\ comm = "chan")
        => MessageTypes = <<"step_started", "step_stopped">>

\* C2: every failing execute() with a CommChannel has posted exactly one
\* step_started and then exactly one step_stopped_with_error, whose text is
\* the message of the Error, when the error reaches the caller, and no
\* step_stopped.
C2_FailurePostsStartedThenStoppedWithError ==
    (pc = "failed" /\ comm = "chan")
        => /\ MessageTypes = <<"step_started", "step_stopped_with_error">>
           /\ queue[2].text = error

C2_Witness ==
    /\ pc = "failed"
    /\ comm = "chan"
    /\ raised_by = "abort"
    /\ Contains(error, TimeoutText)
    /\ Len(queue) = 2

\* C3: a successful execute() returns the script's boolean when the script
\* returned a boolean, and false for every other outcome of the script.
C3_ResultIsScriptBooleanElseFalse ==
    pc = "done"
        => result = IF script_.outcome \in {"true", "false"}
                    THEN script_.outcome ELSE "false"

C3_Witness == pc = "done" /\ script_.outcome = "true" /\ result = "true"

\* C4: once the check hook has observed the termination flag and aborted the
\* script, execute() never returns a result, and it fails with an error that
\* contains "Step aborted on user request".
\* (Violated: see C5; a pcall in the script catches the abort error.)
C4_UserRequestAbortsExecute ==
    (Contains(registry.abort_error_message, UserRequestText) /\ Ended)
        => pc = "failed" /\ Contains(error, UserRequestText)

\* C5: an abort cannot be swallowed: once the abort hook has raised, execute()
\* ends by failing with the stored abort message, never with a result or with
\* the script's own error.
\* (Violated: the line hook fires only when a new line starts; a script whose
\* pcall is followed by nothing, or by code on the same line, goes on.)
C5_AbortIsNotSwallowed ==
    (hook = "abort" /\ Ended)
        => /\ pc = "failed"
           /\ raised_by = "abort"
           /\ EndsWith(error, registry.abort_error_message)

\* C6: for a script that never ends by itself, run with a positive timeout
\* and no termination request, the check hook aborts (for timeout) only when
\* the clock in milliseconds exceeds t0 + timeout, and once it has,
\* execute() ends by failing with an error that contains "[ABORT] Timeout",
\* after posting step_stopped_with_error.
\* (Violated: see C5; a pcall in the script catches the abort error.)
C6_TimeoutAbortsExecute ==
    (/\ script_.work = "endless"
     /\ timeout_ > 0
     /\ ~immediate_termination_requested_
     /\ hook = "abort")
        => /\ RoundMs(clock) > RoundMs(time_of_last_execution_) + timeout_
           /\ Ended
                => /\ pc = "failed"
                   /\ ContainsPair(error, abort_marker, TimeoutText)
                   /\ (comm = "chan"
                         => queue[Len(queue)].type = "step_stopped_with_error")

\* C7 as stated: the message of the Error of an aborted execute() begins with
\* "[ABORT]", that of an ordinary script error does not.
C7_AbortErrorBeginsWithMarker ==
    pc = "failed"
        => (raised_by = "abort" <=> BeginsWith(error, abort_marker))

\* C7 amended: the message of the Error of an aborted execute() contains the
\* marker "[ABORT]", after "Error while executing script of step <i+1>: ";
\* no Error message begins with the marker.
C7_AbortErrorContainsMarker ==
    pc = "failed"
        => /\ raised_by = "abort" => Contains(error, abort_marker)
           /\ ~BeginsWith(error, abort_marker)
           /\ BeginsWith(error, "Error while executing script of step ")

C7_Witness ==
    /\ pc = "failed"
    /\ raised_by = "abort"
    /\ Contains(error, UserRequestText)

\* C8: after a successful execute() a context variable differs from its value
\* before the call only if its name is in used_variables and the script's
\* global of that name is a number or a string.
C8_ExportFrame ==
    pc = "done"
        => \A n \in Names :
              context.variables[n] # context0.variables[n]
                  => /\ n \in used_context_variable_names_
                     /\ lua[n].t \in {"number", "string"}

C8_Witness ==
    /\ pc = "done"
    /\ "b" \notin used_context_variable_names_
    /\ lua["b"].t = "number"
    /\ context.variables["b"] = Absent
    /\ "a" \in used_context_variable_names_
    /\ lua["a"].t = "table"
    /\ context.variables["a"] = TextV("s")

\* C9: round trip: a used variable that the context holds and the script
\* leaves alone (n = n) has the same variant and payload after a successful
\* execute().
C9_RoundTrip ==
    pc = "done"
        => \A n \in used_context_variable_names_ :
              (context0.variables[n] # Absent /\ script_.writes[n] = Keep)
                  => context.variables[n] = context0.variables[n]

C9_Witness ==
    /\ pc = "done"
    /\ "a" \in used_context_variable_names_
    /\ script_.writes["a"] = Keep
    /\ context0.variables["a"] = FloatV(6)
    /\ context.variables["a"] = FloatV(6)

\* the value of a Lua number is exactly a signed 64-bit integer (the values of
\* the model are all within the range)
ExactlyAnInteger(v) == v.sub = "integer" \/ v.num % 2 = 0

\* C10 as stated: a number is exported as the integer variant iff its value
\* is exactly representable as a signed 64-bit integer.
C10_IntegerIffRepresentable ==
    pc = "done"
        => \A n \in used_context_variable_names_ :
              lua[n].t = "number"
                  => (context.variables[n].variant = "integer"
                         <=> ExactlyAnInteger(lua[n]))

\* C10 amended: a number is exported as the integer variant iff it has Lua's
\* integer subtype, and as the floating variant, with the same value,
\* otherwise (3.0 stays floating); a string is exported as the text variant.
C10_IntegerIffIntegerSubtype ==
    pc = "done"
        => \A n \in used_context_variable_names_ :
              /\ (lua[n].t = "number" /\ lua[n].sub = "integer")
                    => context.variables[n] = IntV(lua[n].num)
              /\ (lua[n].t = "number" /\ lua[n].sub = "float")
                    => context.variables[n] = FloatV(lua[n].num)
              /\ lua[n].t = "string"
                    => context.variables[n] = TextV(lua[n].str)

C10_Witness ==
    /\ pc = "done"
    /\ "a" \in used_context_variable_names_
    /\ lua["a"] = LuaFloat(6)
    /\ context.variables["a"] = FloatV(6)
    /\ context0.variables["a"] = IntV(3)

(* ======================================================================= *)
(* Sequence: the list of steps and its indentation (Sequence.h).  The      *)
(* bodies of Sequence::indent() and check_correctness_of_steps() are not   *)
(* part of the sources at hand; they follow the walk the specification     *)
(* describes: one pass over the steps with a stack of the open blocks.     *)
(* ======================================================================= *)

\* largest number of steps the model adds to a Sequence
MaxSteps == 5

\* Step::max_indentation_level
max_indentation_level == 20

\* Step::Type
StepTypes == {"action", "if", "elseif", "else", "while", "try", "catch", "end"}

\* the step types that open a block
Openers == {"if", "while", "try"}

\* what the innermost open block can be
BlockKinds == {"IF", "ELSEIF", "ELSE", "WHILE", "TRY", "CATCH"}

\* Step::set_indentation_level without its range check
set_indentation_level_Unchecked(old, level) == [threw |-> FALSE, value |-> level]

\* Step::set_indentation_level: the level the step has afterwards, and
\* whether the call threw an Error
set_indentation_level(old, level) ==
    IF level < 0
    THEN [threw |-> TRUE, value |-> old]
    ELSE IF level > max_indentation_level
         THEN [threw |-> TRUE, value |-> old]
         ELSE [threw |-> FALSE, value |-> level]

\* the message for the step at index i (counted from 0) whose precondition
\* does not hold
PreconditionError(i, type) ==
    <<"step ", ToString(i), ": ", type, " without matching block">>

\* the message for the block that is still open after the last step
UnterminatedError(block) ==
    <<"unterminated ", block.kind, " at step ", ToString(block.at)>>

\* the walk before the first step
WalkStart == [stack |-> << >>, steps |-> << >>, error |-> NoMsg]

\* the precondition of a step type on the innermost open block
Precondition(type, top) ==
    CASE type \in {"elseif", "else"} -> top \in {"IF", "ELSEIF"}
      [] type = "catch" -> top = "TRY"
      [] type = "end" -> top \in BlockKinds
      [] OTHER -> TRUE

\* the stack of open blocks after a step whose precondition holds
StackAction(stack, type, i) ==
    LET depth == Len(stack)
    IN  CASE type = "if" -> Append(stack, [kind |-> "IF", at |-> i])
          [] type = "while" -> Append(stack, [kind |-> "WHILE", at |-> i])
          [] type = "try" -> Append(stack, [kind |-> "TRY", at |-> i])
          [] type = "elseif" -> [stack EXCEPT ![depth].kind = "ELSEIF"]
          [] type = "else" -> [stack EXCEPT ![depth].kind = "ELSE"]
          [] type = "catch" -> [stack EXCEPT ![depth].kind = "CATCH"]
          [] type = "end" -> SubSeq(stack, 1, depth - 1)
          [] OTHER -> stack

\* the indentation of a step at the given depth, the closing steps not
\* moved out
IndentOf_NoOutdent(type, depth) == depth

\* the indentation of a step at the given depth
IndentOf(type, depth) ==
    IF type \in {"action"} \cup Openers
    THEN depth
    ELSE IF depth - 1 < 0 THEN 0 ELSE depth - 1

\* one step of the walk: the step at index i (counted from 0) gets its
\* indentation; if its precondition fails the stack stays as it is and the
\* first such failure is the one reported
WalkStep(w, step, i) ==
    LET depth == Len(w.stack)
        top == IF depth = 0 THEN "none" ELSE w.stack[depth].kind
        ok == Precondition(step.type, top)
        level == set_indentation_level(step.indentation_level_,
                                       IndentOf(step.type, depth)).value
    IN  [stack |-> IF ok THEN StackAction(w.stack, step.type, i) ELSE w.stack,
         steps |-> Append(w.steps, [step EXCEPT !.indentation_level_ = level]),
         error |-> IF ok \/ w.error # NoMsg
                   THEN w.error
                   ELSE PreconditionError(i, step.type)]

\* the walk over the first n steps
RECURSIVE Walk(_, _)
Walk(steps, n) ==
    IF n = 0 THEN WalkStart ELSE WalkStep(Walk(steps, n - 1), steps[n], n - 1)

\* Sequence::indent() reporting an open block rather than a failed
\* precondition
indent_UnterminatedFirst(steps) ==
    LET w == Walk(steps, Len(steps))
    IN  [steps_ |-> w.steps,
         indentation_error_ |->
            IF w.stack # << >> THEN UnterminatedError(w.stack[Len(w.stack)])
            ELSE w.error]

\* Sequence::indent(): the steps with their indentation and the
\* indentation error
indent(steps) ==
    LET w == Walk(steps, Len(steps))
    IN  [steps_ |-> w.steps,
         indentation_error_ |->
            IF w.error # NoMsg THEN w.error
            ELSE IF w.stack # << >> THEN UnterminatedError(w.stack[Len(w.stack)])
            ELSE NoMsg]

\* Sequence::check_correctness_of_steps(): TRUE if it throws an Error
check_correctness_of_steps(steps) == indent(steps).indentation_error_ # NoMsg

\* a Step as its constructor leaves it
NewStep(type) == [type |-> type, indentation_level_ |-> 0]

\* Sequence::add_step without the call of indent()
add_step_NoIndent(steps, err, step) ==
    [steps_ |-> Append(steps, step), indentation_error_ |-> err]

\* Sequence::add_step: steps_.push_back(step); indent();
add_step(steps, err, step) == indent(Append(steps, step))

\* the variables of Step::execute at rest, but for the clock and the timeout
ExecRest ==
    /\ script_ = CHOOSE sc \in DataScripts : TRUE
    /\ context = CHOOSE c \in DataContexts : TRUE
    /\ used_context_variable_names_ = {}
    /\ comm = "null"
    /\ index = 0
    /\ immediate_termination_requested_ = FALSE
    /\ queue = << >>
    /\ time_of_last_execution_ = 0
    /\ lua = [n \in Names |-> LuaNil]
    /\ registry = EmptyRegistry
    /\ hook = "none"
    /\ vmpc = "off"
    /\ pc = "idle"
    /\ result = "none"
    /\ error = NoMsg
    /\ raised_by = "none"
    /\ context0 = context

\* the variables of Step::execute at rest
ExecIdle == ExecRest /\ clock = 0 /\ timeout_ = LLongMax

execVars == <<clock, immediate_termination_requested_, queue, script_,
              used_context_variable_names_, timeout_, time_of_last_execution_,
              context, comm, index, lua, registry, hook, vmpc, pc, result,
              error, raised_by, context0>>

\* a Sequence as its constructor leaves it
SequenceInit == ExecIdle /\ RestIdle

\* sequence.add_step(Step{type})
AddStep(type) ==
    /\ Len(steps_) < MaxSteps
    /\ LET after == add_step(steps_, indentation_error_, NewStep(type))
       IN  /\ steps_' = after.steps_
           /\ indentation_error_' = after.indentation_error_
    /\ UNCHANGED <<execVars, indentation_level_, triggers, last_call>>

SequenceNext == \E type \in StepTypes : AddStep(type)

SequenceSpec == SequenceInit /\ [][SequenceNext]_vars

(* ----------------- well-nestedness, without a stack -------------------- *)

\* the types of the steps
Types(steps) == [i \in 1..Len(steps) |-> steps[i].type]

\* blocks opened minus blocks closed by the steps a..b
Net(t, a, b) ==
    Cardinality({k \in a..b : t[k] \in Openers})
        - Cardinality({k \in a..b : t[k] = "end"})

\* the steps strictly between j and i are whole blocks
Balanced(t, j, i) ==
    /\ Net(t, j + 1, i - 1) = 0
    /\ \A k \in (j + 1)..(i - 1) : Net(t, j + 1, k) >= 0

\* the step that opened the innermost block open just before step i, 0 if
\* no block is open there
OpenerOf(t, i) ==
    LET c == {j \in 1..(i - 1) : t[j] \in Openers /\ Balanced(t, j, i)}
    IN  IF c = {} THEN 0 ELSE CHOOSE j \in c : \A k \in c : k <= j

\* the else, elseif and catch steps of the block that j opened, before i
MarkersOf(t, j, i) ==
    {k \in (j + 1)..(i - 1) :
        t[k] \in {"elseif", "else", "catch"} /\ OpenerOf(t, k) = j}

\* step i is not allowed where it stands
Offends(t, i) ==
    LET j == OpenerOf(t, i)
    IN  CASE t[i] = "end" -> j = 0
          [] t[i] \in {"elseif", "else"} ->
                \/ j = 0
                \/ t[j] # "if"
                \/ \E k \in MarkersOf(t, j, i) : t[k] = "else"
          [] t[i] = "catch" ->
                \/ j = 0
                \/ t[j] # "try"
                \/ \E k \in MarkersOf(t, j, i) : t[k] = "catch"
          [] OTHER -> FALSE

\* every step stands where it is allowed and every block has its end
BlocksClosed(t) ==
    /\ \A i \in 1..Len(t) : ~Offends(t, i)
    /\ \A j \in 1..Len(t) :
          t[j] \in Openers =>
             \E i \in (j + 1)..Len(t) : t[i] = "end" /\ OpenerOf(t, i) = j

\* every try has exactly one catch at its own depth
TryHasCatch(t) ==
    \A j \in 1..Len(t) :
        t[j] = "try" =>
           Cardinality({k \in (j + 1)..Len(t) :
                           t[k] = "catch" /\ OpenerOf(t, k) = j}) = 1

\* the step list is well-nested
WellNested(t) == BlocksClosed(t) /\ TryHasCatch(t)

\* C11: get_indentation_error() is empty exactly if the step list is
\* well-nested: every if, while and try has its end, every try has exactly
\* one catch at its depth, else and elseif stand only in an open if block,
\* catch only in an open try block
C11_ErrorEmptyIffWellNested ==
    (indentation_error_ = NoMsg) <=> WellNested(Types(steps_))

\* the indentation error is empty exactly if every step stands where it is
\* allowed and every block has its end (a try may end without a catch)
C11_ErrorEmptyIffBlocksClosed ==
    (indentation_error_ = NoMsg) <=> BlocksClosed(Types(steps_))

FirstOffender(t) ==
    LET c == {i \in 1..Len(t) : Offends(t, i)}
    IN  IF c = {} THEN 0 ELSE CHOOSE i \in c : \A k \in c : i <= k

\* some block has no end
SomeBlockOpen(t) ==
    \E j \in 1..Len(t) :
        /\ t[j] \in Openers
        /\ ~\E i \in (j + 1)..Len(t) : t[i] = "end" /\ OpenerOf(t, i) = j

MaxTriggers == 3

\* the durations passed to reset(), in milliseconds
Durations == {0, 1}

\* TimeoutTrigger{}: start time at the epoch; was_reset records that
\* reset() was called on the object, or on the one it was copied from
\* before it was copied; copy_of is the object it was copied from
DefaultTrigger ==
    [start |-> 0, duration |-> 0, was_reset |-> FALSE, copy_of |-> 0]

\* the copy constructor and the copy assignment, both defaulted
CopyOf(t, j) ==
    [start |-> t.start, duration |-> t.duration, was_reset |-> t.was_reset,
     copy_of |-> j]

\* TimeoutTrigger::reset(duration)
reset(t, now, duration) ==
    [t EXCEPT !.start = now, !.duration = duration, !.was_reset = TRUE]

\* TimeoutTrigger::get_start_time()
get_start_time(t) == t.start

\* the clock has left its epoch; no trigger exists yet
TriggerInit ==
    /\ ExecRest
    /\ clock = 1
    /\ timeout_ = LLongMax
    /\ RestIdle

\* Clock::now() advances
TriggerTick ==
    /\ clock < MaxClock
    /\ clock' = clock + 1
    /\ UNCHANGED <<immediate_termination_requested_, queue, script_,
                   used_context_variable_names_, timeout_,
                   time_of_last_execution_, context, comm, index, lua,
                   registry, hook, vmpc, pc, result, error, raised_by,
                   context0, restVars>>

\* TimeoutTrigger timeout_trigger;
TriggerConstruct ==
    /\ Len(triggers) < MaxTriggers
    /\ triggers' = Append(triggers, DefaultTrigger)
    /\ last_call' = [op |-> "construct", obj |-> Len(triggers) + 1, arg |-> 0,
                     threw |-> FALSE]
    /\ UNCHANGED <<execVars, indentation_level_, steps_, indentation_error_>>

\* TimeoutTrigger timeout_trigger_copy = timeout_trigger;
TriggerCopy(j) ==
    /\ Len(triggers) < MaxTriggers
    /\ triggers' = Append(triggers, CopyOf(triggers[j], j))
    /\ last_call' = [op |-> "copy", obj |-> Len(triggers) + 1, arg |-> j,
                     threw |-> FALSE]
    /\ UNCHANGED <<execVars, indentation_level_, steps_, indentation_error_>>

\* reset() writing a start time that all the objects share
TriggerReset_Shared(i, d) ==
    /\ triggers' = [k \in 1..Len(triggers) |-> reset(triggers[k], clock, d)]
    /\ last_call' = [op |-> "reset", obj |-> i, arg |-> d, threw |-> FALSE]
    /\ UNCHANGED <<execVars, indentation_level_, steps_, indentation_error_>>

\* timeout_trigger_copy.reset(1ms);
TriggerReset(i, d) ==
    /\ triggers' = [triggers EXCEPT ![i] = reset(@, clock, d)]
    /\ last_call' = [op |-> "reset", obj |-> i, arg |-> d, threw |-> FALSE]
    /\ UNCHANGED <<execVars, indentation_level_, steps_, indentation_error_>>

TriggerNext ==
    \/ TriggerTick
    \/ TriggerConstruct
    \/ \E j \in 1..Len(triggers) : TriggerCopy(j)
    \/ \E i \in 1..Len(triggers), d \in Durations : TriggerReset(i, d)

TriggerSpec == TriggerInit /\ [][TriggerNext]_vars

\* C14: get_start_time() is the epoch from default construction, or from
\* being copied from a trigger that was never reset, until reset() is
\* called on the object itself; reset() makes the start time of its own
\* object differ from the epoch and changes the start time of no other
\* object
C14_StartTimeOwnedByObject ==
    /\ [](\A i \in 1..Len(triggers) :
            /\ ~triggers[i].was_reset => get_start_time(triggers[i]) = 0
            /\ (last_call.op = "reset" /\ last_call.obj = i) =>
                   get_start_time(triggers[i]) # 0)
    /\ [][\A i \in 1..Len(triggers) :
            get_start_time(triggers'[i]) # get_start_time(triggers[i]) =>
                (last_call'.op = "reset" /\ last_call'.obj = i)]_vars

\* a copy of a default-constructed trigger was reset; the original still
\* has its start time at the epoch
C14_Witness ==
    /\ Len(triggers) >= 2
    /\ triggers[1].copy_of = 0
    /\ triggers[2].copy_of = 1
    /\ last_call.op = "reset"
    /\ last_call.obj = 2
    /\ ~triggers[1].was_reset
    /\ get_start_time(triggers[1]) = 0
    /\ get_start_time(triggers[2]) # 0

(* ======================================================================= *)
(* Step::execute: the texts of the Error and of the terminal messages      *)
(* ======================================================================= *)

\* C15: on every failure path of execute() with index i the message of the
\* Error is "Error while executing script of step <i+1>: <vm-message>", and
\* the text of the step_stopped_with_error message is that same message
C15_ErrorTextNamesStepFromOne ==
    pc = "failed" =>
        /\ Len(error) > 4
        /\ error[1] = "Error while executing script of step "
        /\ error[2] = ToString(index + 1)
        /\ error[3] = ": "
        /\ error[4] = "sol: runtime error: "
        /\ EndsWith(error, IF raised_by = "abort"
                           THEN registry.abort_error_message
                           ELSE ScriptErrorText)
        /\ comm = "chan" =>
              /\ queue[Len(queue)].type = "step_stopped_with_error"
              /\ queue[Len(queue)].text = error

\* the script of the step with index 1 raised an error of its own
C15_Witness ==
    /\ pc = "failed"
    /\ index = 1
    /\ raised_by = "script"
    /\ comm = "chan"
    /\ error[2] = "2"
    /\ queue[Len(queue)].text = error

\* C16: the text of the step_stopped message is "Step <i+1> finished
\* (logical result: R)" with R the boolean that execute() returns; a script
\* that returns true produces a step_stopped message saying "logical
\* result: true".  (Violated: execute() returns the boolean of the script
\* before the message is sent.)
C16_StoppedTextCarriesResult ==
    (pc = "done" /\ comm = "chan") =>
        \E k \in 1..Len(queue) :
            /\ queue[k].type = "step_stopped"
            /\ queue[k].text = <<"Step ", ToString(index + 1),
                                 " finished (logical result: ", result, ")">>

(* ======================================================================= *)
(* Step: the setters of the timeout and of the indentation level           *)
(* ======================================================================= *)

\* the timeouts passed to set_timeout(), in milliseconds
TimeoutArgs == (0 - 2)..LLongMax

\* the levels passed to set_indentation_level()
LevelArgs == (0 - 2)..(max_indentation_level + 2)

\* Step::set_timeout: the timeout the step has afterwards
set_timeout(timeout) == IF timeout < 0 THEN 0 ELSE timeout

\* a Step as its constructor leaves it
StepInit == ExecIdle /\ RestIdle

\* step.set_timeout(timeout)
SetTimeout(timeout) ==
    /\ timeout_' = set_timeout(timeout)
    /\ last_call' = [op |-> "set_timeout", obj |-> 0, arg |-> timeout,
                     threw |-> FALSE]
    /\ UNCHANGED <<clock, immediate_termination_requested_, queue, script_,
                   used_context_variable_names_, time_of_last_execution_,
                   context, comm, index, lua, registry, hook, vmpc, pc,
                   result, error, raised_by, context0, indentation_level_,
                   steps_, indentation_error_, triggers>>

\* step.set_indentation_level(level)
SetIndentationLevel(level) ==
    /\ LET r == set_indentation_level(indentation_level_, level)
       IN  /\ indentation_level_' = r.value
           /\ last_call' = [op |-> "set_indentation_level", obj |-> 0,
                            arg |-> level, threw |-> r.threw]
    /\ UNCHANGED <<execVars, steps_, indentation_error_, triggers>>

StepNext ==
    \/ \E timeout \in TimeoutArgs : SetTimeout(timeout)
    \/ \E level \in LevelArgs : SetIndentationLevel(level)

StepSpec == StepInit /\ [][StepNext]_vars

\* C17: after any sequence of set_timeout and set_indentation_level calls
\* the timeout is >= 0 and the level is within 0..max_indentation_level;
\* set_timeout with a negative duration stores zero and does not fail;
\* set_indentation_level with a level outside the range fails with an
\* Error and leaves the stored level as it was
C17_SettersKeepRanges ==
    /\ [](/\ timeout_ >= 0
          /\ indentation_level_ \in 0..max_indentation_level)
    /\ [](last_call.op = "set_timeout" =>
            /\ ~last_call.threw
            /\ timeout_ = IF last_call.arg < 0 THEN 0 ELSE last_call.arg)
    /\ [](last_call.op = "set_indentation_level" =>
            /\ last_call.threw <=> last_call.arg \notin 0..max_indentation_level
            /\ ~last_call.threw => indentation_level_ = last_call.arg)
    /\ [][(last_call'.op = "set_indentation_level" /\ last_call'.threw)
              => indentation_level_' = indentation_level_]_vars

\* after set_timeout with a negative duration, set_indentation_level(21)
\* failed on a step at level 3
C17_Witness ==
    /\ timeout_ = 0
    /\ last_call.op = "set_indentation_level"
    /\ last_call.arg = max_indentation_level + 1
    /\ last_call.threw
    /\ indentation_level_ = 3

(* ======================================================================= *)
(* The deadline that execute() writes to the registry                      *)
(* ======================================================================= *)

\* execute() is about to install the hook: any start time from the epoch
\* up to the largest time point, any timeout from zero up to the largest
\* duration
DeadlineInit ==
    /\ ExecRest
    /\ RestIdle
    /\ clock \in 0..(TicksPerMs * LLongMax)
    /\ timeout_ \in 0..LLongMax

\* install_timeout_and_termination_request_hook(lua, now, timeout, comm)
InstallHook ==
    /\ hook = "none"
    /\ registry' = install_timeout_and_termination_request_hook(clock, timeout_, comm)
    /\ hook' = "check"
    /\ UNCHANGED <<clock, immediate_termination_requested_, queue, script_,
                   used_context_variable_names_, timeout_,
                   time_of_last_execution_, context, comm, index, lua, vmpc,
                   pc, result, error, raised_by, context0, restVars>>

DeadlineNext == InstallHook

DeadlineSpec == DeadlineInit /\ [][DeadlineNext]_vars

\* C18: the deadline in the registry is min(t0_ms + timeout_ms, MAX) for
\* every start time t0_ms >= 0 and every timeout >= 0: the exact sum when
\* it is representable, MAX when the sum would overflow, never a wrapped
\* value
C18_DeadlineSaturates ==
    hook = "check" =>
        LET t0_ms == RoundMs(clock)
        IN  /\ registry.timeout_ms =
                  IF t0_ms + timeout_ <= LLongMax THEN t0_ms + timeout_
                  ELSE LLongMax
            /\ registry.timeout_ms >= t0_ms
            /\ registry.timeout_ms >= timeout_

\* the sum of the start time and the timeout is beyond MAX
C18_Witness ==
    /\ hook = "check"
    /\ RoundMs(clock) > 0
    /\ timeout_ < LLongMax
    /\ RoundMs(clock) + timeout_ > LLongMax
    /\ registry.timeout_ms = LLongMax

(* ======================================================================= *)
(* A timeout of zero                                                       *)
(* ======================================================================= *)

\* the script is at its work, the check hook is installed, the timeout is
\* zero and no termination is requested: the hook may be called now, for
\* the first time or after calls that let the script run on
ZeroTimeoutCheckPending ==
    /\ timeout_ = 0
    /\ pc = "running"
    /\ vmpc = "work"
    /\ hook = "check"
    /\ ~immediate_termination_requested_

\* C19: with a timeout of zero the first call of the check hook aborts the
\* script with the timeout error whatever the clock reads, also in the
\* millisecond in which execute() started.  (Violated: the hook compares
\* with ">", so a call in the millisecond of the start lets the script run
\* on.)
C19_ZeroTimeoutAbortsAtFirstCheck ==
    ZeroTimeoutCheckPending =>
        BeginsWith(hook_check_timeout_and_termination_request(registry,
                       immediate_termination_requested_, clock), TimeoutText)

\* with a timeout of zero a call of the check hook aborts the script, with
\* the timeout error, exactly if the clock rounded to milliseconds is later
\* than the start time rounded to milliseconds
C19_ZeroTimeoutAbortsAfterStartMillisecond ==
    ZeroTimeoutCheckPending =>
        LET msg == hook_check_timeout_and_termination_request(registry,
                       immediate_termination_requested_, clock)
        IN  /\ msg # NoMsg <=> RoundMs(clock) > RoundMs(time_of_last_execution_)
            /\ msg # NoMsg => BeginsWith(msg, TimeoutText)

\* a step with timeout zero was aborted by the timeout, in a millisecond
\* after the one of its start
C19_Witness ==
    /\ timeout_ = 0
    /\ pc = "failed"
    /\ raised_by = "abort"
    /\ Contains(error, TimeoutText)
    /\ RoundMs(clock) > RoundMs(time_of_last_execution_)

(* ======================================================================= *)
(* Sequence: the indentation levels                                        *)
(* ======================================================================= *)

\* the indentation levels of the steps
Levels(steps) == [i \in 1..Len(steps) |-> steps[i].indentation_level_]

C21_FailureLeavesContext ==
    /\ [](pc # "done" => context = context0)
    /\ [][context' # context => pc' = "done"]_vars
    /\ [](Contains(MessageTypes, "step_stopped") =>
            context.variables =
                copy_used_variables_from_lua_to_context(lua,
                    used_context_variable_names_, context0.variables))

\* the script assigned the whitelisted variable a, which the Context holds
\* with another value, and then failed
C21_Witness ==
    /\ pc = "failed"
    /\ "a" \in used_context_variable_names_
    /\ lua["a"] = LuaInt(1)
    /\ context0.variables["a"] = IntV(3)
    /\ context.variables["a"] = IntV(3)

\* what execute() returns and exports, as a function of the script, the
\* Lua globals and the Context it was called with; the CommChannel does not
\* occur in it
OutcomeWithoutRequest ==
    /\ pc = "done" =>
          /\ result = ReturnValue(script_.outcome)
          /\ context.variables =
                copy_used_variables_from_lua_to_context(lua,
                    used_context_variable_names_, context0.variables)
    /\ pc = "failed" =>
          /\ result = "none"
          /\ context = context0
          /\ raised_by = "abort" => Contains(error, TimeoutText)
          /\ raised_by = "script" => EndsWith(error, ScriptErrorText)

\* C22: when execute() is called without a CommChannel the check hook never
\* aborts the script on account of the missing channel or of a termination
\* request; the timeout is still enforced, no message is posted, and the
\* result and the exported variables are those of the same call with a
\* channel whose termination flag is never set
C22_NullChannelRunsLikeQuietChannel ==
    /\ comm = "null" =>
          /\ queue = << >>
          /\ hook # "none" =>
                \A flag \in BOOLEAN :
                    /\ check_immediate_termination_request(registry, flag) = NoMsg
                    /\ hook_check_timeout_and_termination_request(registry,
                           flag, clock) = check_script_timeout(registry, clock)
          /\ ~Contains(error, UserRequestText)
          /\ ~Contains(error, " not found in LUA registry")
    /\ (comm = "null" \/ ~immediate_termination_requested_) =>
          OutcomeWithoutRequest

\* a script run without a CommChannel was aborted by the timeout
C22_Witness ==
    /\ comm = "null"
    /\ pc = "failed"
    /\ raised_by = "abort"
    /\ Contains(error, TimeoutText)
    /\ queue = << >>

====
